---- MODULE Spec2Model ----
(***************************************************************************)
(* Refresh-token lifecycle of the authentication backend: AuthService      *)
(* (createRefreshToken, validateRefreshToken, revokeRefreshToken,          *)
(* cleanupExpiredTokens), UserService.validateUserCredentials and the      *)
(* AuthController handlers login, refresh and logout that compose them,    *)
(* UserController, the OAuth callback, the JWT guard and RateLimitGuard.   *)
(*                                                                         *)
(* Every await of a handler is a point where other requests, the cron job  *)
(* and the clock may run, so a handler is a sequence of steps, one per     *)
(* database statement, and req[r] holds the position of request r.         *)
(*                                                                         *)
(* Time: now is the system clock in the unit of a JWT's iat and exp        *)
(* claims; Date values are kept in the same unit.  The 30-day and          *)
(* 15-minute lifetimes are scaled down to RefreshTtl and AccessTtl units,  *)
(* the rate limiter's window to WindowMs units and its 100 requests to     *)
(* MaxRequests.                                                            *)
(***************************************************************************)
EXTENDS Integers, Sequences, FiniteSets, TLC

VARIABLES
    now,            \* the system clock, in ticks
    users,          \* table "user"
    refreshTokens,  \* table "refresh_token"
    nextId,         \* the SERIAL sequence of refresh_token.id
    req,            \* req[r]: the request in flight in slot r (its locals and position)
    resp,           \* the response this step sent, NoResponse when it sent none
    lastIssued,     \* lastIssued[u]: id of the row stored by the latest createRefreshToken(u), 0 if none
    nextUserId,     \* the SERIAL sequence of user.id
    bearer,         \* the token a client holds, to present as its Bearer credential
    storage         \* RateLimitGuard.storage: storage[key] is the record of a client key

vars ==
    <<now, users, refreshTokens, nextId, req, resp, lastIssued, nextUserId, bearer, storage>>

-----------------------------------------------------------------------------
(* Bounds *)

MaxNow == 3
MaxRows == 3
RefreshTtl == 2
AccessTtl == 1

NReq == 2
MaxUsers == 5
MaxRequests == 2
WindowMs == 1

Reqs == 1..NReq
UserIds == 1..MaxUsers
Emails == {"a@x", "b@x", "c@x", "nobody@x"}
Passwords == {"pw-a", "pw-b"}

-----------------------------------------------------------------------------
(* bcrypt *)

Hash(password) == <<"bcrypt", password>>

\* hashedPassword: null
NullHash == <<"null", "">>

\* bcrypt.compare(password, user.hashedPassword || '')
Compare(password, hashed) == hashed = Hash(password)

-----------------------------------------------------------------------------
(* JwtService: a token string is determined by its header, its payload     *)
(* (with iat and exp in seconds) and the key that signed it.               *)

NoToken == [sub |-> 0, username |-> "", typ |-> "none", iat |-> 0, exp |-> 0, sig |-> "none"]

\* jwtService.sign(payload, { expiresIn })
Sign(sub, typ, ttl) ==
    [sub |-> sub, username |-> "", typ |-> typ, iat |-> now, exp |-> now + ttl,
     sig |-> "server"]

\* faulty variant: the token is decoded, its signature not verified
Verify_decodeOnly(token) == now < token.exp

\* jwtService.verify(token): the signature and the exp claim
Verify(token) == token.sig = "server" /\ now < token.exp

\* a token-shaped string that the server's key did not sign
ForgedToken ==
    [sub |-> 1, username |-> "", typ |-> "refresh", iat |-> 0, exp |-> RefreshTtl,
     sig |-> "forged"]

-----------------------------------------------------------------------------
(* Repository<RefreshToken> *)

ActiveRows(rows, userId) == {row \in rows : row.userId = userId /\ ~row.isRevoked}

\* faulty variant: the update matches the active rows of every user
RevokeAllActive_everyUser(rows, userId) ==
    {[row EXCEPT !.isRevoked = TRUE] : row \in rows}

\* faulty variant: the update matches no row
RevokeAllActive_none(rows, userId) == rows

\* faulty variant: the update matches the active rows of the other users
RevokeAllActive_others(rows, userId) ==
    {IF row.userId # userId /\ ~row.isRevoked THEN [row EXCEPT !.isRevoked = TRUE] ELSE row
        : row \in rows}

\* update({ userId, isRevoked: false }, { isRevoked: true })
RevokeAllActive(rows, userId) ==
    {IF row.userId = userId /\ ~row.isRevoked THEN [row EXCEPT !.isRevoked = TRUE] ELSE row
        : row \in rows}

\* faulty variant: the update flips isRevoked
RevokeByToken_toggle(rows, token) ==
    {IF row.token = token THEN [row EXCEPT !.isRevoked = ~@] ELSE row : row \in rows}

\* faulty variant: the update matches the rows of the token's user
RevokeByToken_byUser(rows, token) ==
    {IF row.userId = token.sub THEN [row EXCEPT !.isRevoked = TRUE] ELSE row : row \in rows}

\* update({ token }, { isRevoked: true })
RevokeByToken(rows, token) ==
    {IF row.token = token THEN [row EXCEPT !.isRevoked = TRUE] ELSE row : row \in rows}

\* faulty variant: the update has no criteria
RevokeById_all(rows, id) == {[row EXCEPT !.isRevoked = TRUE] : row \in rows}

\* update({ id }, { isRevoked: true })
RevokeById(rows, id) ==
    {IF row.id = id THEN [row EXCEPT !.isRevoked = TRUE] ELSE row : row \in rows}

\* findOne({ where: { token, isRevoked: false } }): the rows it may return
FindActiveByToken(rows, token) == {row \in rows : row.token = token /\ ~row.isRevoked}

\* faulty variant: LessThanOrEqual
DeleteExpired_notLater(rows) == {row \in rows : ~(row.expiresAt <= now)}

\* faulty variant: the delete has no criteria
DeleteExpired_all(rows) == {}

\* delete({ expiresAt: LessThan(new Date()) })
DeleteExpired(rows) == {row \in rows : ~(row.expiresAt < now)}

\* the ids of the rows that differ between two contents of the table
Changed(before, after) == {row.id : row \in (before \ after) \cup (after \ before)}

\* faulty variant: the check of expiresAt is missing
Expired_never(row) == FALSE

\* validateRefreshToken's check of a row: refreshToken.expiresAt < new Date()
Expired(row) == row.expiresAt < now

-----------------------------------------------------------------------------
(* RateLimitGuard *)

\* generateKey: the client's IP, followed by the user id when the request is authenticated
Keys == {"10.0.0.1", "10.0.0.1:1"}

\* storage.get(key) of a key the Map does not hold
NoRecord == [count |-> 0, resetTime |-> 0]

\* faulty variant: the window is over from resetTime on
WindowOver_atResetTime(record) == now >= record.resetTime

\* now > record.resetTime
WindowOver(record) == now > record.resetTime

-----------------------------------------------------------------------------
(* Requests and responses *)

Idle ==
    [op |-> "none", pc |-> "idle", email |-> "", password |-> "", token |-> NoToken,
     user |-> 0, found |-> 0, wrote |-> {}, trace |-> <<>>, access |-> NoToken, key |-> ""]

NoResponse ==
    [op |-> "none", status |-> 0, message |-> "", email |-> "", password |-> "",
     token |-> NoToken, user |-> 0, found |-> 0, wrote |-> {}, trace |-> <<>>,
     access |-> NoToken, cookie |-> NoToken, key |-> ""]

Response(r, status, message, cookie) ==
    [op |-> r.op, status |-> status, message |-> message, email |-> r.email,
     password |-> r.password, token |-> r.token, user |-> r.user, found |-> r.found, wrote |-> r.wrote,
     trace |-> r.trace, access |-> IF status = 200 THEN r.access ELSE NoToken,
     cookie |-> cookie, key |-> r.key]

AllIdle == \A r \in Reqs : req[r].pc = "idle"

\* a new request is served in the first free slot
Free(r) == req[r].pc = "idle" /\ \A r2 \in Reqs : r2 < r => req[r2].pc # "idle"

\* the refreshToken cookie a client may present: a token some row holds, a forged one, or none
Presentable == {row.token : row \in refreshTokens} \cup {ForgedToken, NoToken}

-----------------------------------------------------------------------------
(* UserService *)

\* getUserByEmail
UsersByEmail(email) == {u \in users : u.email = email}

\* faulty variant: the result of bcrypt.compare is not checked
validateUserCredentials_anyPassword(email, password) ==
    IF UsersByEmail(email) = {}
    THEN [ok |-> FALSE, user |-> 0, message |-> "Invalid credentials"]
    ELSE LET user == CHOOSE u \in UsersByEmail(email) : TRUE
         IN  IF ~user.isActive
             THEN [ok |-> FALSE, user |-> 0, message |-> "Account is inactive"]
             ELSE [ok |-> TRUE, user |-> user.id, message |-> ""]

\* faulty variant: isActive is not checked
validateUserCredentials_anyStatus(email, password) ==
    IF UsersByEmail(email) = {}
    THEN [ok |-> FALSE, user |-> 0, message |-> "Invalid credentials"]
    ELSE LET user == CHOOSE u \in UsersByEmail(email) : TRUE
         IN  IF ~Compare(password, user.hashedPassword)
             THEN [ok |-> FALSE, user |-> 0, message |-> "Invalid credentials"]
             ELSE [ok |-> TRUE, user |-> user.id, message |-> ""]

\* faulty variant: an unknown email has a message of its own
validateUserCredentials_userNotFound(email, password) ==
    IF UsersByEmail(email) = {}
    THEN [ok |-> FALSE, user |-> 0, message |-> "User not found"]
    ELSE LET user == CHOOSE u \in UsersByEmail(email) : TRUE
         IN  IF ~user.isActive
             THEN [ok |-> FALSE, user |-> 0, message |-> "Account is inactive"]
             ELSE IF ~Compare(password, user.hashedPassword)
                  THEN [ok |-> FALSE, user |-> 0, message |-> "Invalid credentials"]
                  ELSE [ok |-> TRUE, user |-> user.id, message |-> ""]

\* validateUserCredentials(email, password): the user, or the error thrown
validateUserCredentials(email, password) ==
    IF UsersByEmail(email) = {}
    THEN [ok |-> FALSE, user |-> 0, message |-> "Invalid credentials"]
    ELSE LET user == CHOOSE u \in UsersByEmail(email) : TRUE
         IN  IF ~user.isActive
             THEN [ok |-> FALSE, user |-> 0, message |-> "Account is inactive"]
             ELSE IF ~Compare(password, user.hashedPassword)
                  THEN [ok |-> FALSE, user |-> 0, message |-> "Invalid credentials"]
                  ELSE [ok |-> TRUE, user |-> user.id, message |-> ""]

\* faulty variant: the signed payload has no username
createTokenForUser_subOnly(user) ==
    [accessToken |-> Sign(user.id, "access", AccessTtl),
     user |-> [id |-> user.id, email |-> user.email]]

\* AuthService.createTokenForUser: the access token, signed for 15 minutes from the
\* payload { username: user.email, sub: user.id }, and the user's public fields
createTokenForUser(user) ==
    [accessToken |-> [Sign(user.id, "access", AccessTtl) EXCEPT !.username = user.email],
     user |-> [id |-> user.id, email |-> user.email]]

\* getUserById: the rows with that id
UsersById(userId) == {u \in users : u.id = userId}

\* createUser's row: userRepository.create({ ...userInput, hashedPassword }) with the
\* column defaults of isOauth and isActive
NewUser(id, email, password) ==
    [id |-> id, email |-> email, hashedPassword |-> Hash(password), isOauth |-> FALSE,
     isActive |-> TRUE, createdBy |-> "createUser"]

\* faulty variant: the OAuth row keeps the column default of isOauth
OAuthUser_defaultFlag(id, email) ==
    [id |-> id, email |-> email, hashedPassword |-> NullHash, isOauth |-> FALSE,
     isActive |-> TRUE, createdBy |-> "createOAuthUser"]

\* createOAuthUser's row: userRepository.create({ ...userInput, hashedPassword: null,
\* isOauth: true })
OAuthUser(id, email) ==
    [id |-> id, email |-> email, hashedPassword |-> NullHash, isOauth |-> TRUE,
     isActive |-> TRUE, createdBy |-> "createOAuthUser"]

\* the bodies of PUT /user/:id that the validation pipe lets through and that matter
\* here: UpdateUserDto's email and isActive, each optional
UserUpdates ==
    {[email |-> "", isActive |-> "false"],
     [email |-> "", isActive |-> "true"],
     [email |-> "nobody@x", isActive |-> "absent"]}

\* updateUser's { ...existingUser, ...userUpdate }
Merge(existingUser, userUpdate) ==
    [existingUser EXCEPT
        !.email = IF userUpdate.email = "" THEN @ ELSE userUpdate.email,
        !.isActive = IF userUpdate.isActive = "absent" THEN @ ELSE userUpdate.isActive = "true"]

\* JwtStrategy's check of a Bearer token: the signature only (ignoreExpiration: true)
JwtStrategy_verify(token) == token.sig = "server"

-----------------------------------------------------------------------------
Init ==
    /\ now = 0
    /\ users =
        {[id |-> 1, email |-> "a@x", hashedPassword |-> Hash("pw-a"), isOauth |-> FALSE,
          isActive |-> TRUE, createdBy |-> "createUser"],
         [id |-> 2, email |-> "b@x", hashedPassword |-> Hash("pw-b"), isOauth |-> FALSE,
          isActive |-> TRUE, createdBy |-> "createUser"],
         [id |-> 3, email |-> "c@x", hashedPassword |-> Hash("pw-a"), isOauth |-> FALSE,
          isActive |-> FALSE, createdBy |-> "createUser"]}
    /\ refreshTokens = {}
    /\ nextId = 1
    /\ req = [r \in Reqs |-> Idle]
    /\ resp = NoResponse
    /\ lastIssued = [u \in UserIds |-> 0]
    /\ nextUserId = 4
    /\ bearer = NoToken
    /\ storage = [key \in Keys |-> NoRecord]

\* the clock advances
Tick ==
    /\ now < MaxNow
    /\ now' = now + 1
    /\ resp' = NoResponse
    /\ UNCHANGED <<users, refreshTokens, nextId, req, lastIssued, nextUserId, bearer, storage>>

\* AuthController.login up to its first database write: validateUserCredentials,
\* createTokenForUser, and the call of createRefreshToken
login(r, email, password) ==
    /\ Free(r)
    /\ LET res == validateUserCredentials(email, password)
           start == [Idle EXCEPT !.op = "login", !.email = email, !.password = password]
       IN  IF ~res.ok
           THEN /\ resp' = Response(start, 401, res.message, NoToken)
                /\ UNCHANGED req
           ELSE /\ req' = [req EXCEPT ![r] =
                               [start EXCEPT !.pc = "revoke", !.user = res.user,
                                             !.access = createTokenForUser(
                                                 CHOOSE u \in users : u.id = res.user).accessToken]]
                /\ resp' = NoResponse
    /\ UNCHANGED <<now, users, refreshTokens, nextId, lastIssued, nextUserId, bearer, storage>>

\* createRefreshToken, first statement: revoke the user's active tokens
createRefreshToken_revoke(r) ==
    /\ req[r].pc = "revoke"
    /\ refreshTokens' = RevokeAllActive(refreshTokens, req[r].user)
    /\ req' = [req EXCEPT ![r].pc = "insert",
                          ![r].wrote = @ \cup Changed(refreshTokens, refreshTokens')]
    /\ resp' = NoResponse
    /\ UNCHANGED <<now, users, nextId, lastIssued, nextUserId, bearer, storage>>

\* createRefreshToken, second statement: sign the token and save its row; the handler
\* then sets the cookie and returns
createRefreshToken_save(r) ==
    /\ req[r].pc = "insert"
    /\ nextId <= MaxRows
    /\ UsersById(req[r].user) # {}
    /\ LET token == Sign(req[r].user, "refresh", RefreshTtl)
           row == [id |-> nextId, token |-> token, userId |-> req[r].user,
                   expiresAt |-> now + RefreshTtl, isRevoked |-> FALSE]
       IN  /\ refreshTokens' = refreshTokens \cup {row}
           /\ nextId' = nextId + 1
           /\ lastIssued' = [lastIssued EXCEPT ![req[r].user] = row.id]
           /\ resp' = Response([req[r] EXCEPT !.wrote = @ \cup {row.id}], 200, "", token)
           /\ req' = [req EXCEPT ![r] = Idle]
    /\ UNCHANGED <<now, users, nextUserId, bearer, storage>>

\* createRefreshToken, second statement, when sign or save throws (a database error, the
\* user deleted meanwhile): the exception leaves the handler
createRefreshToken_fail(r) ==
    /\ req[r].pc = "insert"
    /\ resp' = Response(req[r], 500, "Internal server error", NoToken)
    /\ req' = [req EXCEPT ![r] = Idle]
    /\ UNCHANGED <<now, users, refreshTokens, nextId, lastIssued, nextUserId, bearer, storage>>

\* AuthController.refresh up to the first database read: the cookie, then
\* validateRefreshToken's jwtService.verify
refresh(r, token) ==
    /\ Free(r)
    /\ LET start == [Idle EXCEPT !.op = "refresh", !.token = token]
       IN  IF token = NoToken
           THEN /\ resp' = Response(start, 401, "Refresh token not found", NoToken)
                /\ UNCHANGED req
           ELSE IF ~Verify(token)
                THEN /\ resp' = Response([start EXCEPT !.trace = <<"verify">>], 401,
                                         "Invalid refresh token", NoToken)
                     /\ UNCHANGED req
                ELSE /\ req' = [req EXCEPT ![r] =
                                    [start EXCEPT !.pc = "lookup", !.trace = <<"verify">>]]
                     /\ resp' = NoResponse
    /\ UNCHANGED <<now, users, refreshTokens, nextId, lastIssued, nextUserId, bearer, storage>>

\* validateRefreshToken: findOne, then the check of the row's expiresAt; a usable row
\* returns its user, and refresh goes on to createTokenForUser and createRefreshToken
validateRefreshToken_lookup(r) ==
    /\ req[r].pc = "lookup"
    /\ LET rows == FindActiveByToken(refreshTokens, req[r].token)
           looked == [req[r] EXCEPT !.trace = Append(@, "lookup")]
       IN  IF rows = {}
           THEN /\ resp' = Response(looked, 401, "Refresh token not found or revoked", NoToken)
                /\ req' = [req EXCEPT ![r] = Idle]
           ELSE \E row \in rows :
                    LET checked == [looked EXCEPT !.trace = Append(@, "expiry"), !.found = row.id]
                    IN  /\ resp' = NoResponse
                        /\ IF Expired(row)
                           THEN req' = [req EXCEPT ![r] = [checked EXCEPT !.pc = "expire"]]
                           ELSE req' = [req EXCEPT ![r] =
                                            [checked EXCEPT !.pc = "revoke", !.user = row.userId,
                                                            !.access = createTokenForUser(
                                                                CHOOSE u \in users : u.id = row.userId).accessToken]]
    /\ UNCHANGED <<now, users, refreshTokens, nextId, lastIssued, nextUserId, bearer, storage>>

\* validateRefreshToken, expired row: mark it revoked, then throw
validateRefreshToken_expire(r) ==
    /\ req[r].pc = "expire"
    /\ refreshTokens' = RevokeById(refreshTokens, req[r].found)
    /\ resp' = Response([req[r] EXCEPT !.wrote = @ \cup Changed(refreshTokens, refreshTokens')],
                        401, "Refresh token expired", NoToken)
    /\ req' = [req EXCEPT ![r] = Idle]
    /\ UNCHANGED <<now, users, nextId, lastIssued, nextUserId, bearer, storage>>

\* AuthController.logout: revokeRefreshToken when a cookie came, then clearCookie
logout(r, token) ==
    /\ Free(r)
    /\ refreshTokens' = IF token # NoToken THEN RevokeByToken(refreshTokens, token)
                                           ELSE refreshTokens
    /\ resp' = Response([Idle EXCEPT !.op = "logout", !.token = token,
                                     !.wrote = Changed(refreshTokens, refreshTokens')],
                        200, "Logout successful", NoToken)
    /\ UNCHANGED <<now, users, nextId, req, lastIssued, nextUserId, bearer, storage>>

\* scheduledTokenCleanup (cron): cleanupExpiredTokens
cleanupExpiredTokens ==
    /\ refreshTokens' = DeleteExpired(refreshTokens)
    /\ refreshTokens' # refreshTokens
    /\ resp' = NoResponse
    /\ UNCHANGED <<now, users, nextId, req, lastIssued, nextUserId, bearer, storage>>

\* AuthService.revokeAllUserRefreshTokens, called on the service
revokeAllUserRefreshTokens(userId) ==
    /\ refreshTokens' = RevokeAllActive(refreshTokens, userId)
    /\ resp' = Response([Idle EXCEPT !.op = "revokeAllUserRefreshTokens", !.user = userId,
                                     !.wrote = Changed(refreshTokens, refreshTokens')],
                        0, "", NoToken)
    /\ UNCHANGED <<now, users, nextId, req, lastIssued, nextUserId, bearer, storage>>

-----------------------------------------------------------------------------
(* UserController, the OAuth callback and the JWT guard *)

\* UserController.createUser (POST /user): bcrypt.hash and save; the unique constraint on
\* email makes the save of a taken email fail
createUser(r, email, password) ==
    /\ Free(r)
    /\ LET start == [Idle EXCEPT !.op = "createUser", !.email = email, !.password = password]
       IN  IF UsersByEmail(email) # {}
           THEN /\ resp' = Response(start, 500, "Repeated value", NoToken)
                /\ UNCHANGED <<users, nextUserId>>
           ELSE /\ nextUserId <= MaxUsers
                /\ users' = users \cup {NewUser(nextUserId, email, password)}
                /\ nextUserId' = nextUserId + 1
                /\ resp' = [Response([start EXCEPT !.user = nextUserId], 201, "", NoToken)
                               EXCEPT !.access = createTokenForUser(
                                          NewUser(nextUserId, email, password)).accessToken]
    /\ UNCHANGED <<now, refreshTokens, nextId, req, lastIssued, bearer, storage>>

\* AuthController.googleAuthRedirect up to the end of validateOAuthLogin's getUserByEmail:
\* a known email goes on to createTokenForUser and the redirect, whose URL carries the
\* access token in its token parameter (resp.access); no cookie is set
googleAuthRedirect(r, email) ==
    /\ Free(r)
    /\ LET start == [Idle EXCEPT !.op = "googleAuthRedirect", !.email = email]
       IN  IF UsersByEmail(email) = {}
           THEN /\ req' = [req EXCEPT ![r] = [start EXCEPT !.pc = "createOAuthUser"]]
                /\ resp' = NoResponse
           ELSE LET user == CHOOSE u \in UsersByEmail(email) : TRUE
                IN  /\ resp' = [Response([start EXCEPT !.user = user.id], 302, "", NoToken)
                                   EXCEPT !.access = createTokenForUser(user).accessToken]
                    /\ UNCHANGED req
    /\ UNCHANGED <<now, users, refreshTokens, nextId, lastIssued, nextUserId, bearer, storage>>

\* faulty variant: the save is not subject to the unique constraint on email
createOAuthUser_noConstraint(r) ==
    /\ req[r].pc = "createOAuthUser"
    /\ nextUserId <= MaxUsers
    /\ users' = users \cup {OAuthUser(nextUserId, req[r].email)}
    /\ nextUserId' = nextUserId + 1
    /\ resp' = [Response([req[r] EXCEPT !.user = nextUserId], 302, "", NoToken)
                   EXCEPT !.access = createTokenForUser(OAuthUser(nextUserId, req[r].email)).accessToken]
    /\ req' = [req EXCEPT ![r] = Idle]
    /\ UNCHANGED <<now, refreshTokens, nextId, lastIssued, bearer, storage>>

\* validateOAuthLogin for an email that getUserByEmail did not find: createOAuthUser's
\* save, then createTokenForUser and the redirect
createOAuthUser(r) ==
    /\ req[r].pc = "createOAuthUser"
    /\ IF UsersByEmail(req[r].email) # {}
       THEN /\ resp' = Response(req[r], 500, "Repeated value", NoToken)
            /\ UNCHANGED <<users, nextUserId>>
       ELSE /\ nextUserId <= MaxUsers
            /\ users' = users \cup {OAuthUser(nextUserId, req[r].email)}
            /\ nextUserId' = nextUserId + 1
            /\ resp' = [Response([req[r] EXCEPT !.user = nextUserId], 302, "", NoToken)
                           EXCEPT !.access = createTokenForUser(
                                      OAuthUser(nextUserId, req[r].email)).accessToken]
    /\ req' = [req EXCEPT ![r] = Idle]
    /\ UNCHANGED <<now, refreshTokens, nextId, lastIssued, bearer, storage>>

\* UserController.updateUser (PUT /user/:id): getUserById, the merge, save
updateUser(r, userId, userUpdate) ==
    /\ Free(r)
    /\ LET start == [Idle EXCEPT !.op = "updateUser", !.user = userId]
       IN  IF UsersById(userId) = {}
           THEN /\ resp' = Response(start, 404, "User not found", NoToken)
                /\ UNCHANGED users
           ELSE LET existingUser == CHOOSE u \in UsersById(userId) : TRUE
                    updatedUser == Merge(existingUser, userUpdate)
                IN  IF \E u \in users : u.id # userId /\ u.email = updatedUser.email
                    THEN /\ resp' = Response(start, 500, "Repeated value", NoToken)
                         /\ UNCHANGED users
                    ELSE /\ users' = (users \ {existingUser}) \cup {updatedUser}
                         /\ resp' = Response(start, 200, "", NoToken)
    /\ UNCHANGED <<now, refreshTokens, nextId, req, lastIssued, nextUserId, bearer, storage>>

\* UserController.deleteUser (DELETE /user/:id): the delete of the user row, which
\* cascades to the user's refresh_token rows (onDelete: 'CASCADE')
deleteUser(r, userId) ==
    /\ Free(r)
    /\ LET start == [Idle EXCEPT !.op = "deleteUser", !.user = userId]
       IN  IF UsersById(userId) = {}
           THEN /\ resp' = Response(start, 404, "User not found", NoToken)
                /\ UNCHANGED <<users, refreshTokens>>
           ELSE /\ users' = users \ UsersById(userId)
                /\ refreshTokens' = {row \in refreshTokens : row.userId # userId}
                /\ resp' = Response(start, 200, "", NoToken)
    /\ UNCHANGED <<now, nextId, req, lastIssued, nextUserId, bearer, storage>>

\* UserController.updatePassword (PUT /user/password) for the user the JWT guard admitted
updatePassword(r, userId, currentPassword, newPassword) ==
    /\ Free(r)
    /\ \E u \in UsersById(userId) : u.isActive
    /\ LET start == [Idle EXCEPT !.op = "updatePassword", !.user = userId,
                                 !.password = currentPassword]
           user == CHOOSE u \in UsersById(userId) : TRUE
       IN  IF user.isOauth
           THEN /\ resp' = Response(start, 401, "Cannot update password for OAuth users", NoToken)
                /\ UNCHANGED users
           ELSE IF ~Compare(currentPassword, user.hashedPassword)
                THEN /\ resp' = Response(start, 401, "Current password is invalid", NoToken)
                     /\ UNCHANGED users
                ELSE /\ users' = (users \ {user}) \cup
                                    {[user EXCEPT !.hashedPassword = Hash(newPassword)]}
                     /\ resp' = Response(start, 200, "Password updated successfully", NoToken)
    /\ UNCHANGED <<now, refreshTokens, nextId, req, lastIssued, nextUserId, bearer, storage>>

\* UserController.validateUserCredentials (POST /user/validate)
postValidate(r, email, password) ==
    /\ Free(r)
    /\ LET res == validateUserCredentials(email, password)
           start == [Idle EXCEPT !.op = "validate", !.email = email, !.password = password]
       IN  resp' = IF res.ok THEN Response([start EXCEPT !.user = res.user], 201, "", NoToken)
                             ELSE Response(start, 401, res.message, NoToken)
    /\ UNCHANGED <<now, users, refreshTokens, nextId, req, lastIssued, nextUserId, bearer, storage>>

\* the client keeps the access token of the response it received
keepToken ==
    /\ resp.access # NoToken
    /\ bearer' = resp.access
    /\ resp' = NoResponse
    /\ UNCHANGED <<now, users, refreshTokens, nextId, req, lastIssued, nextUserId, storage>>

\* the client takes the refresh token of the cookie it received as its Bearer credential
keepCookie ==
    /\ resp.cookie # NoToken
    /\ bearer' = resp.cookie
    /\ resp' = NoResponse
    /\ UNCHANGED <<now, users, refreshTokens, nextId, req, lastIssued, nextUserId, storage>>

\* GET /auth/validate behind AuthGuard('jwt'): the strategy's check of the Bearer token,
\* then JwtStrategy.validate (getUserById, isActive)
validateToken(r, token) ==
    /\ Free(r)
    /\ LET start == [Idle EXCEPT !.op = "validateToken", !.token = token]
       IN  IF token = NoToken \/ ~JwtStrategy_verify(token)
           THEN /\ resp' = Response(start, 401, "Unauthorized", NoToken)
                /\ UNCHANGED req
           ELSE IF UsersById(token.sub) = {}
                THEN /\ resp' = Response(start, 404, "User not found", NoToken)
                     /\ UNCHANGED req
                ELSE IF \E u \in UsersById(token.sub) : ~u.isActive
                     THEN /\ resp' = Response(start, 401, "User not found or inactive", NoToken)
                          /\ UNCHANGED req
                     ELSE /\ req' = [req EXCEPT ![r] =
                                         [start EXCEPT !.pc = "getUserById", !.user = token.sub]]
                          /\ resp' = NoResponse
    /\ UNCHANGED <<now, users, refreshTokens, nextId, lastIssued, nextUserId, bearer, storage>>

\* AuthController.validateToken, the handler: getUserById(req.user.userId)
validateToken_getUserById(r) ==
    /\ req[r].pc = "getUserById"
    /\ resp' = IF UsersById(req[r].user) = {}
               THEN Response(req[r], 404, "User not found", NoToken)
               ELSE Response(req[r], 200, "", NoToken)
    /\ req' = [req EXCEPT ![r] = Idle]
    /\ UNCHANGED <<now, users, refreshTokens, nextId, lastIssued, nextUserId, bearer, storage>>

\* RateLimitGuard.canActivate for a request of the client with the given key: true lets
\* the request through (no response of the guard's own), the exception answers 429
canActivate(key) ==
    /\ LET record == storage[key]
           start == [Idle EXCEPT !.op = "canActivate", !.key = key]
       IN  IF record = NoRecord \/ WindowOver(record)
           THEN /\ storage' = [storage EXCEPT ![key] =
                                   [count |-> 1, resetTime |-> now + WindowMs]]
                /\ resp' = Response(start, 0, "", NoToken)
           ELSE IF record.count >= MaxRequests
                THEN /\ resp' = Response(start, 429, "Too many requests", NoToken)
                     /\ UNCHANGED storage
                ELSE /\ storage' = [storage EXCEPT ![key].count = @ + 1]
                     /\ resp' = Response(start, 0, "", NoToken)
    /\ UNCHANGED <<now, users, refreshTokens, nextId, req, lastIssued, nextUserId, bearer>>

\* RateLimitGuard.cleanup (setInterval): delete the records whose window is over
cleanup ==
    /\ storage' = [key \in Keys |->
                      IF storage[key] # NoRecord /\ WindowOver(storage[key])
                      THEN NoRecord ELSE storage[key]]
    /\ storage' # storage
    /\ resp' = NoResponse
    /\ UNCHANGED <<now, users, refreshTokens, nextId, req, lastIssued, nextUserId, bearer>>

\* the Bearer credential a client may present: the token it holds, a forged one, or none
Bearers == {bearer, [ForgedToken EXCEPT !.typ = "access"], NoToken}

-----------------------------------------------------------------------------
\* requests are served concurrently, the cron job and the clock run at any time
Next ==
    \/ Tick
    \/ cleanupExpiredTokens
    \/ \E r \in Reqs, email \in Emails, password \in Passwords : login(r, email, password)
    \/ \E r \in Reqs, token \in Presentable : refresh(r, token)
    \/ \E r \in Reqs, token \in Presentable : logout(r, token)
    \/ \E r \in Reqs : createRefreshToken_revoke(r)
    \/ \E r \in Reqs : createRefreshToken_save(r)
    \/ \E r \in Reqs : createRefreshToken_fail(r)
    \/ \E r \in Reqs : validateRefreshToken_lookup(r)
    \/ \E r \in Reqs : validateRefreshToken_expire(r)
    \/ \E userId \in UserIds : revokeAllUserRefreshTokens(userId)
    \/ \E r \in Reqs, email \in Emails, password \in Passwords : createUser(r, email, password)
    \/ \E r \in Reqs, email \in Emails : googleAuthRedirect(r, email)
    \/ \E r \in Reqs : createOAuthUser(r)
    \/ \E r \in Reqs, userId \in UserIds, userUpdate \in UserUpdates :
            updateUser(r, userId, userUpdate)
    \/ \E r \in Reqs, userId \in UserIds : deleteUser(r, userId)
    \/ \E r \in Reqs, userId \in UserIds, currentPassword \in Passwords,
            newPassword \in Passwords : updatePassword(r, userId, currentPassword, newPassword)
    \/ \E r \in Reqs, email \in Emails, password \in Passwords : postValidate(r, email, password)
    \/ keepToken
    \/ keepCookie
    \/ \E r \in Reqs, token \in Bearers : validateToken(r, token)
    \/ \E r \in Reqs : validateToken_getUserById(r)
    \/ \E key \in Keys : canActivate(key)
    \/ cleanup

Spec == Init /\ [][Next]_vars

\* the behaviours of Spec in which a request or a service call arrives only when no
\* other is in flight; the cron job and the clock still run between the steps of a request
NextSeq ==
    \/ Tick
    \/ cleanupExpiredTokens
    \/ \E r \in Reqs, email \in Emails, password \in Passwords :
            AllIdle /\ login(r, email, password)
    \/ \E r \in Reqs, token \in Presentable : AllIdle /\ refresh(r, token)
    \/ \E r \in Reqs, token \in Presentable : AllIdle /\ logout(r, token)
    \/ \E r \in Reqs : createRefreshToken_revoke(r)
    \/ \E r \in Reqs : createRefreshToken_save(r)
    \/ \E r \in Reqs : createRefreshToken_fail(r)
    \/ \E r \in Reqs : validateRefreshToken_lookup(r)
    \/ \E r \in Reqs : validateRefreshToken_expire(r)
    \/ \E userId \in {u.id : u \in users} : AllIdle /\ revokeAllUserRefreshTokens(userId)

SpecSeq == Init /\ [][NextSeq]_vars

\* the behaviours of Spec in which logins and refreshes overlap, every save succeeds and
\* the clock runs only between the requests
NextRace ==
    \/ AllIdle /\ Tick
    \/ \E r \in Reqs, email \in Emails, password \in Passwords : login(r, email, password)
    \/ \E r \in Reqs, token \in Presentable : refresh(r, token)
    \/ \E r \in Reqs : createRefreshToken_revoke(r)
    \/ \E r \in Reqs : createRefreshToken_save(r)
    \/ \E r \in Reqs : validateRefreshToken_lookup(r)

SpecRace == Init /\ [][NextRace]_vars

\* the behaviours of Spec made of the requests that read and write the user table:
\* registrations and OAuth callbacks overlap; profile updates, password updates and
\* credential checks arrive when no other request is in flight
NextUser ==
    \/ \E r \in Reqs, email \in Emails, password \in Passwords : createUser(r, email, password)
    \/ \E r \in Reqs, email \in Emails : googleAuthRedirect(r, email)
    \/ \E r \in Reqs : createOAuthUser(r)
    \/ \E r \in Reqs, userId \in UserIds, userUpdate \in UserUpdates :
            AllIdle /\ updateUser(r, userId, userUpdate)
    \/ \E r \in Reqs, userId \in UserIds, currentPassword \in Passwords,
            newPassword \in Passwords :
            AllIdle /\ updatePassword(r, userId, currentPassword, newPassword)
    \/ \E r \in Reqs, email \in Emails, password \in Passwords :
            AllIdle /\ postValidate(r, email, password)

SpecUser == Init /\ [][NextUser]_vars

\* the behaviours of Spec in which clients log in, keep a token they received and present
\* it to the JWT guard, one request at a time, while the clock runs
NextGuard ==
    \/ Tick
    \/ \E r \in Reqs, email \in Emails, password \in Passwords :
            AllIdle /\ login(r, email, password)
    \/ \E r \in Reqs : createRefreshToken_revoke(r)
    \/ \E r \in Reqs : createRefreshToken_save(r)
    \/ keepToken
    \/ keepCookie
    \/ \E r \in Reqs, token \in Bearers : AllIdle /\ validateToken(r, token)
    \/ \E r \in Reqs : validateToken_getUserById(r)

SpecGuard == Init /\ [][NextGuard]_vars

\* the behaviours of Spec in which registered users sign in with Google, keep the access
\* token of the redirect and present it to the JWT guard, one request at a time, while
\* users are deactivated and deleted
NextAccess ==
    \/ Tick
    \/ \E r \in Reqs, user \in users : AllIdle /\ googleAuthRedirect(r, user.email)
    \/ keepToken
    \/ \E r \in Reqs, token \in Bearers : AllIdle /\ validateToken(r, token)
    \/ \E r \in Reqs : validateToken_getUserById(r)
    \/ \E r \in Reqs, userId \in UserIds :
            AllIdle /\ updateUser(r, userId, [email |-> "", isActive |-> "false"])
    \/ \E r \in Reqs, userId \in UserIds : AllIdle /\ deleteUser(r, userId)

SpecAccess == Init /\ [][NextAccess]_vars

\* the behaviours of Spec in which requests only pass the rate limiter, while its
\* interval timer and the clock run
NextRate ==
    \/ Tick
    \/ \E key \in Keys : canActivate(key)
    \/ cleanup

SpecRate == Init /\ [][NextRate]_vars

-----------------------------------------------------------------------------
(* Claims *)

\* C1: with the createRefreshToken calls executed one at a time, every user has at most
\* one row with isRevoked = FALSE, and such a row is the one the latest
\* createRefreshToken call for that user stored.
C1_SingleActiveIsLatest ==
    \A u \in UserIds :
        /\ Cardinality(ActiveRows(refreshTokens, u)) <= 1
        /\ \A row \in ActiveRows(refreshTokens, u) : row.id = lastIssued[u]

\* a user whose earlier token was rotated out by a later createRefreshToken
C1_Witness ==
    \E old \in refreshTokens, new \in refreshTokens :
        /\ old.userId = new.userId
        /\ old.id < new.id
        /\ old.isRevoked
        /\ ~new.isRevoked
        /\ new.id = lastIssued[new.userId]

\* C2: when createRefreshToken calls for one user overlap, no state has two rows with
\* isRevoked = FALSE for that user.
C2_NoTwoActiveRows ==
    \A u \in UserIds : Cardinality(ActiveRows(refreshTokens, u)) <= 1

\* C3: a createRefreshToken that fails after its revoke-all update leaves no partial
\* rotation behind: no failed request has revoked the user's active token while the user
\* is left without a stored active token.
C3_NoPartialRotation ==
    ~(/\ resp.status = 500
      /\ resp.wrote # {}
      /\ ActiveRows(refreshTokens, resp.user) = {})

\* C4: validateRefreshToken never returns a user for a token that a stored row holds
\* with isRevoked = TRUE, although its signature and exp claim are valid.
C4_RevokedTokenRejected ==
    \A r \in Reqs :
        (req[r].op = "refresh" /\ req[r].pc = "revoke") =>
            \A row \in refreshTokens : row.token = req[r].token => ~row.isRevoked

\* C5: a refresh that fails on a token whose stored row is past its expiresAt leaves that
\* row with isRevoked = TRUE.
C5_ExpiredRowLeftRevoked ==
    (resp.op = "refresh" /\ resp.status = 401) =>
        \A row \in refreshTokens : (row.token = resp.token /\ Expired(row)) => row.isRevoked

\* C6: after a successful refresh presenting token T, every row holding T is revoked, so
\* no later lookup of T finds a usable row, and the token set in the cookie is the only
\* non-revoked token of the user.
C6_RotatedTokenUnusable ==
    (resp.op = "refresh" /\ resp.status = 200) =>
        /\ \A row \in refreshTokens : row.token = resp.token => row.isRevoked
        /\ {row.token : row \in ActiveRows(refreshTokens, resp.user)} = {resp.cookie}

\* C7 (as stated): validateRefreshToken returns a user only if the row it found for the
\* token has isRevoked = FALSE and expiresAt strictly later than the time of the check.
C7_UsableOnlyIfStrictlyLater ==
    [][\A r \in Reqs :
          (req[r].pc = "lookup" /\ req'[r].pc = "revoke") =>
              \E row \in refreshTokens :
                  /\ row.id = req'[r].found
                  /\ row.token = req[r].token
                  /\ ~row.isRevoked
                  /\ row.expiresAt > now]_vars

\* C7 (amended): validateRefreshToken returns a user only if the row it found for the
\* token has isRevoked = FALSE and expiresAt not earlier than the time of the check; a
\* row whose expiresAt equals that time is still accepted.
C7_UsableOnlyIfNotEarlier ==
    [][\A r \in Reqs :
          (req[r].pc = "lookup" /\ req'[r].pc = "revoke") =>
              \E row \in refreshTokens :
                  /\ row.id = req'[r].found
                  /\ row.token = req[r].token
                  /\ ~row.isRevoked
                  /\ row.expiresAt >= now
                  /\ req'[r].user = row.userId]_vars

\* validateRefreshToken has just returned the user of a row whose expiresAt is the
\* current time
C7_Witness ==
    \E r \in Reqs, row \in refreshTokens :
        /\ req[r].op = "refresh"
        /\ req[r].pc = "revoke"
        /\ row.id = req[r].found
        /\ row.expiresAt = now

\* C8: validateRefreshToken checks the signature, then looks the row up, then checks the
\* row's expiry: a token the server did not sign is rejected as 'Invalid refresh token'
\* before any store read or write, a token without a non-revoked row is rejected as
\* 'not found or revoked' without a store write, and the expiry check is reached only
\* after both.
C8_CheckOrder ==
    /\ \A r \in Reqs :
        /\ req[r].pc = "lookup" =>
              /\ req[r].token.sig = "server"
              /\ req[r].trace = <<"verify">>
              /\ req[r].wrote = {}
        /\ req[r].pc = "expire" =>
              /\ req[r].token.sig = "server"
              /\ req[r].trace = <<"verify", "lookup", "expiry">>
              /\ req[r].wrote = {}
    /\ (resp.op = "refresh" /\ resp.token # NoToken) =>
        /\ resp.token.sig # "server" => resp.message = "Invalid refresh token"
        /\ resp.message = "Invalid refresh token" =>
              (resp.trace = <<"verify">> /\ resp.wrote = {})
        /\ resp.message = "Refresh token not found or revoked" =>
              /\ resp.trace = <<"verify", "lookup">>
              /\ resp.wrote = {}
              /\ FindActiveByToken(refreshTokens, resp.token) = {}
        /\ resp.message = "Refresh token expired" =>
              resp.trace = <<"verify", "lookup", "expiry">>
        /\ resp.status = 200 => resp.trace = <<"verify", "lookup", "expiry">>

\* a correctly signed token whose rows are all revoked was rejected at the lookup
C8_Witness ==
    /\ resp.op = "refresh"
    /\ resp.message = "Refresh token not found or revoked"
    /\ resp.token.sig = "server"
    /\ \E row \in refreshTokens : row.token = resp.token

\* C9: a refresh whose validation fails issues no access token and no refresh token, and
\* changes no row, except that in the expired case it sets isRevoked on the one row it
\* found for the presented token.
C9_FailedRefreshNoCascade ==
    (resp.op = "refresh" /\ resp.status = 401) =>
        /\ resp.access = NoToken
        /\ resp.cookie = NoToken
        /\ IF resp.message = "Refresh token expired"
           THEN /\ resp.wrote \subseteq {resp.found}
                /\ \A row \in refreshTokens :
                      row.id = resp.found => (row.token = resp.token /\ row.isRevoked)
           ELSE resp.wrote = {}

\* a refresh failed on an expired row while another token in the table is active
C9_Witness ==
    /\ resp.op = "refresh"
    /\ resp.message = "Refresh token expired"
    /\ resp.wrote = {resp.found}
    /\ \E row \in refreshTokens : row.id # resp.found /\ ~row.isRevoked

\* the email has no user, or an inactive one, or the password is not the user's
CredentialsFail(email, password) ==
    ~\E u \in users : u.email = email /\ u.isActive /\ u.hashedPassword = Hash(password)

\* C10: a login whose credentials fail validation ends with the 401 that
\* validateUserCredentials threw and has no effect: no access token, no cookie, no row
\* written, and it never reaches createRefreshToken.
C10_FailedLoginNoEffect ==
    /\ \A r \in Reqs :
          req[r].op = "login" => ~CredentialsFail(req[r].email, req[r].password)
    /\ (resp.op = "login" /\ CredentialsFail(resp.email, resp.password)) =>
          /\ resp.status = 401
          /\ resp.message \in {"Invalid credentials", "Account is inactive"}
          /\ resp.message = "Account is inactive" <=>
                \E u \in users : u.email = resp.email /\ ~u.isActive
          /\ resp.access = NoToken
          /\ resp.cookie = NoToken
          /\ resp.wrote = {}

\* a login with a wrong password failed while the user holds an active token
C10_Witness ==
    /\ resp.op = "login"
    /\ resp.status = 401
    /\ \E u \in users :
          /\ u.email = resp.email
          /\ u.isActive
          /\ ActiveRows(refreshTokens, u.id) # {}

\* C11: for every user with isActive = FALSE, validateUserCredentials fails with
\* Unauthorized for every password, the user's own included.
C11_InactiveAlwaysRejected ==
    /\ \A u \in users, password \in Passwords :
          ~u.isActive => ~validateUserCredentials(u.email, password).ok
    /\ (resp.op = "validate" /\ \E u \in users : u.email = resp.email /\ ~u.isActive) =>
          (resp.status = 401 /\ resp.user = 0)

\* a user who was deactivated after registration was rejected with the right password
C11_Witness ==
    /\ resp.op = "validate"
    /\ resp.status = 401
    /\ \E u \in users :
          /\ u.email = resp.email
          /\ u.id # 3
          /\ ~u.isActive
          /\ u.hashedPassword = Hash(resp.password)

C13_ExpiredAccessTokenRejected ==
    [][\A r \in Reqs :
          (req[r].pc = "idle" /\ req'[r].pc = "getUserById") =>
              (req'[r].token.sig = "server" /\ now < req'[r].token.exp)]_vars

\* C14: a successful OAuth callback resolves or creates the user, issues a refresh token
\* for that user's id, sets it as the refreshToken cookie and redirects to the frontend;
\* the redirect URL carries no access token.
C14_OAuthCallbackSetsCookie ==
    (resp.op = "googleAuthRedirect" /\ resp.status = 302) =>
        /\ \E u \in users : u.id = resp.user /\ u.email = resp.email
        /\ resp.cookie # NoToken
        /\ \E row \in ActiveRows(refreshTokens, resp.user) : row.token = resp.cookie
        /\ resp.access = NoToken

\* C15: whatever the interleaving of OAuth callbacks and registrations, there is at most
\* one user row per email; a callback whose email belongs to a user creates no row and
\* uses that user as it is, and a callback for a new email creates exactly one row, also
\* when two callbacks for the same new email overlap.
C15_OneUserPerEmail ==
    [][/\ \A u1 \in users', u2 \in users' : u1.email = u2.email => u1 = u2
       /\ (resp'.op = "googleAuthRedirect" /\ resp'.status = 302) =>
             IF UsersByEmail(resp'.email) # {}
             THEN /\ users' = users
                  /\ \E u \in UsersByEmail(resp'.email) : u.id = resp'.user
             ELSE /\ users \subseteq users'
                  /\ Cardinality(users' \ users) = 1
                  /\ \A u \in users' \ users : u.email = resp'.email /\ u.id = resp'.user
       /\ (resp'.op = "googleAuthRedirect" /\ resp'.status # 302) => users' = users]_vars

\* of two overlapping callbacks for one new email the second failed at its save, and the
\* email has the one row the first created
C15_Witness ==
    /\ resp.op = "googleAuthRedirect"
    /\ resp.status = 500
    /\ Cardinality(UsersByEmail(resp.email)) = 1
    /\ \A u \in UsersByEmail(resp.email) : u.createdBy = "createOAuthUser"

\* C16: in every reachable state, after any sequence of createUser, createOAuthUser,
\* validateOAuthLogin, updateUser and updatePassword, every user created through the OAuth
\* path has isOauth = TRUE and a null hashedPassword, and validateUserCredentials rejects
\* that user for every password.
C16_OAuthUserHasNoPassword ==
    /\ \A u \in users :
          u.createdBy = "createOAuthUser" =>
              /\ u.isOauth
              /\ u.hashedPassword = NullHash
              /\ \A password \in Passwords : ~validateUserCredentials(u.email, password).ok
    /\ (resp.op = "validate" /\
            \E u \in users : u.email = resp.email /\ u.createdBy = "createOAuthUser") =>
          resp.status = 401

\* a password update was refused for a user whom an OAuth callback created under an
\* email that a registered user had given up
C16_Witness ==
    /\ resp.op = "updatePassword"
    /\ resp.message = "Cannot update password for OAuth users"
    /\ \E u \in users :
          /\ u.id = resp.user
          /\ u.createdBy = "createOAuthUser"
          /\ u.email # "nobody@x"

\* C17: logout is idempotent and does not depend on the token: without a refreshToken
\* cookie it answers 'Logout successful' and writes nothing; with a cookie it revokes that
\* token; and a repeated logout with the same cookie succeeds and leaves the store as the
\* first logout left it.
C17_LogoutIdempotent ==
    resp.op = "logout" =>
        /\ resp.status = 200
        /\ resp.message = "Logout successful"
        /\ resp.cookie = NoToken
        /\ resp.token = NoToken => resp.wrote = {}
        /\ resp.token # NoToken =>
              /\ \A row \in refreshTokens : row.token = resp.token => row.isRevoked
              /\ RevokeByToken(refreshTokens, resp.token) = refreshTokens

\* a logout with the cookie of a token that was already revoked succeeded and wrote
\* nothing
C17_Witness ==
    /\ resp.op = "logout"
    /\ resp.status = 200
    /\ resp.token # NoToken
    /\ resp.wrote = {}
    /\ \E row \in refreshTokens : row.token = resp.token /\ row.isRevoked

\* C18: revokeRefreshToken(token) is idempotent and does not fail for an unknown token:
\* applied once or twice it gives the same table, with the rows holding that token string
\* at isRevoked = TRUE; it changes nothing but isRevoked of those rows, and nothing at all
\* when no row holds the token.
C18_RevokeIdempotentAndFramed ==
    /\ \A token \in Presentable \ {NoToken} :
          LET once == RevokeByToken(refreshTokens, token)
          IN  /\ RevokeByToken(once, token) = once
              /\ \A row \in once : row.token = token => row.isRevoked
              /\ \A row \in refreshTokens :
                    IF row.token = token
                    THEN [row EXCEPT !.isRevoked = TRUE] \in once
                    ELSE row \in once
              /\ Cardinality(once) = Cardinality(refreshTokens)
              /\ (\A row \in refreshTokens : row.token # token) => once = refreshTokens
    /\ resp.op = "logout" =>
          \A row \in refreshTokens : row.id \in resp.wrote => row.token = resp.token

\* a logout revoked the row of its token while a row holding another token stayed active
C18_Witness ==
    /\ resp.op = "logout"
    /\ resp.wrote # {}
    /\ \E row \in refreshTokens : row.token # resp.token /\ ~row.isRevoked

\* C19: after revokeAllUserRefreshTokens(U) no row owned by U has isRevoked = FALSE, and
\* every row owned by another user is unchanged.
C19_RevokeAllOnlyOwnRows ==
    /\ \A u \in UserIds :
          /\ ActiveRows(RevokeAllActive(refreshTokens, u), u) = {}
          /\ \A row \in refreshTokens :
                row.userId # u => row \in RevokeAllActive(refreshTokens, u)
    /\ resp.op = "revokeAllUserRefreshTokens" =>
          /\ ActiveRows(refreshTokens, resp.user) = {}
          /\ \A row \in refreshTokens : row.id \in resp.wrote => row.userId = resp.user

\* revokeAllUserRefreshTokens revoked a user's active token while another user's token
\* stayed active
C19_Witness ==
    /\ resp.op = "revokeAllUserRefreshTokens"
    /\ resp.wrote # {}
    /\ \E row \in refreshTokens : row.userId # resp.user /\ ~row.isRevoked

\* C20: cleanupExpiredTokens deletes exactly the rows whose expiresAt is earlier than the
\* current time, revoked or not, and leaves every other row, the revoked ones and the ones
\* expiring at the current time included, in place and unchanged.
C20_CleanupDeletesExactlyExpired ==
    [][/\ DeleteExpired(refreshTokens) = refreshTokens \ {row \in refreshTokens : row.expiresAt < now}
       /\ (\E row \in refreshTokens : \A kept \in refreshTokens' : kept.id # row.id) =>
             refreshTokens' = {row \in refreshTokens : row.expiresAt >= now}]_vars

\* a cleanup has deleted rows and left in place a revoked row that expires at the current
\* time
C20_Witness ==
    /\ Cardinality(refreshTokens) < nextId - 1
    /\ \E row \in refreshTokens : row.isRevoked /\ row.expiresAt = now

\* the rows that make a validateRefreshToken(token) whose checks run at the given time
\* succeed
UsableAt(rows, token, time) ==
    {row \in rows : row.token = token /\ ~row.isRevoked /\ ~(row.expiresAt < time)}

\* C21: cleanupExpiredTokens, run without locks between the steps of createRefreshToken
\* and validateRefreshToken, never deletes a row that is usable (isRevoked = FALSE and not
\* expired) at the moment of the delete, and changes the outcome of no validateRefreshToken
\* call: for every token and every time from the delete on, the rows that make the call
\* succeed are the same with and without the delete.
C21_CleanupKeepsUsableRows ==
    [][(\E row \in refreshTokens : \A kept \in refreshTokens' : kept.id # row.id) =>
          /\ \A row \in refreshTokens \ refreshTokens' : row.isRevoked \/ Expired(row)
          /\ \A token \in Presentable, time \in now..MaxNow :
                UsableAt(refreshTokens', token, time) = UsableAt(refreshTokens, token, time)
          /\ \A r \in Reqs :
                req[r].pc = "lookup" =>
                    (\E row \in FindActiveByToken(refreshTokens', req[r].token) : ~Expired(row))
                      = (\E row \in FindActiveByToken(refreshTokens, req[r].token) : ~Expired(row))]_vars

\* the cleanup ran while a validateRefreshToken call was between its signature check and
\* its lookup, and deleted the rows of the token the call presents
C21_Witness ==
    \E r \in Reqs :
        /\ req[r].pc = "lookup"
        /\ req[r].token.sig = "server"
        /\ \A row \in refreshTokens : row.token # req[r].token

\* C22: when resolving the user fails during the OAuth callback, the error stays in the
\* controller: every callback ends with a redirect, and a failed one sets no cookie and
\* carries no token.
C22_OAuthErrorRedirects ==
    resp.op = "googleAuthRedirect" =>
        /\ resp.status = 302
        /\ resp.user = 0 => (resp.cookie = NoToken /\ resp.access = NoToken)

C24_RefreshExchangedOnce ==
    [][/\ (/\ resp.op = "refresh" /\ resp.status = 200
            /\ resp'.op = "refresh" /\ resp'.status = 200) => resp'.found # resp.found
       /\ (resp'.op = "refresh" /\ resp'.status = 200 /\ \A r \in Reqs : req'[r] = Idle) =>
              Cardinality(ActiveRows(refreshTokens', resp'.user)) <= 1]_vars

\* C25: every createRefreshToken call returns a token string that no row stored before
\* the call carries, also for a call for the same user within the same clock second: the
\* token a handler has just set as the cookie is the token of exactly one stored row, and
\* no two rows carry the same token string.
C25_FreshTokenString ==
    /\ resp.cookie # NoToken =>
          Cardinality({row \in refreshTokens : row.token = resp.cookie}) = 1
    /\ \A row1, row2 \in refreshTokens : row1.id # row2.id => row1.token # row2.token

\* C26: a refresh token is never accepted as an access token: a request that presents a
\* refresh-token string as its Bearer credential does not pass the JWT guard, it is
\* answered 401 and never reaches the handler.
C26_RefreshTokenIsNoBearer ==
    /\ \A r \in Reqs :
          (req[r].op = "validateToken" /\ req[r].pc = "getUserById") =>
              req[r].token.typ # "refresh"
    /\ (resp.op = "validateToken" /\ resp.token.typ = "refresh") => resp.status = 401

\* C27: no flow issues tokens to an inactive user: a login, a refresh or an OAuth callback
\* that answers with an access token or a refresh-token cookie answers for a user whose
\* isActive is true at that moment.
C27_NoTokensForInactive ==
    (/\ resp.op \in {"login", "refresh", "googleAuthRedirect"}
     /\ resp.access # NoToken \/ resp.cookie # NoToken) =>
        \E user \in users : user.id = resp.user /\ user.isActive

\* C28: the JWT guard re-reads the user on every request: a correctly signed token whose
\* subject does not exist or is inactive is answered 401 Unauthorized, and a request that
\* passes the guard carries userId = sub of a user that exists and is active.
C28_GuardRejectsMissingOrInactive ==
    /\ (/\ resp.op = "validateToken"
         /\ JwtStrategy_verify(resp.token)
         /\ ~\E user \in users : user.id = resp.token.sub /\ user.isActive) =>
            resp.status = 401
    /\ \A r \in Reqs :
          req[r].pc = "getUserById" =>
              /\ req[r].user = req[r].token.sub
              /\ \E user \in users : user.id = req[r].user /\ user.isActive

\* C29: createRefreshToken(U) changes only rows owned by U: every row that a successful
\* login or refresh of user U wrote (revoked or inserted) is owned by U, so the rows of
\* every other user keep their token, expiresAt and isRevoked values.
C29_CreateOnlyOwnRows ==
    (resp.op \in {"login", "refresh"} /\ resp.status = 200) =>
        /\ \A row \in refreshTokens : row.id \in resp.wrote => row.userId = resp.user
        /\ \E row \in refreshTokens :
              row.id \in resp.wrote /\ row.token = resp.cookie /\ ~row.isRevoked

\* a login or refresh revoked the user's earlier token and saved a new one while another
\* user's token was active
C29_Witness ==
    /\ resp.op \in {"login", "refresh"}
    /\ resp.status = 200
    /\ Cardinality(resp.wrote) >= 2
    /\ \E row \in refreshTokens : row.userId # resp.user /\ ~row.isRevoked

\* C30: rate limiter: the stored count of a key never exceeds MaxRequests; a request
\* that arrives within the window of its key's record (up to and including resetTime) is
\* allowed and counted while the count is below MaxRequests, and is otherwise rejected
\* with 429 leaving every record unchanged; a request that finds no record, or arrives
\* after resetTime, is allowed and starts a new window with count 1; and no other step
\* touches a record whose window is not over, so one window allows at most MaxRequests
\* requests.
C30_RateLimiter ==
    [][/\ \A key \in Keys : storage[key].count <= MaxRequests
       /\ resp'.op = "canActivate" =>
              LET record == storage[resp'.key]
              IN  IF record # NoRecord /\ now <= record.resetTime
                  THEN IF record.count < MaxRequests
                       THEN /\ resp'.status = 0
                            /\ storage' = [storage EXCEPT ![resp'.key] =
                                               [count |-> record.count + 1,
                                                resetTime |-> record.resetTime]]
                       ELSE /\ resp'.status = 429
                            /\ storage' = storage
                  ELSE /\ resp'.status = 0
                       /\ storage' = [storage EXCEPT ![resp'.key] =
                                          [count |-> 1, resetTime |-> now + WindowMs]]
       /\ resp'.op # "canActivate" =>
              \A key \in Keys :
                  storage'[key] # storage[key] =>
                      storage'[key] = NoRecord /\ now > storage[key].resetTime]_vars

\* a request arrived exactly at resetTime with the count at MaxRequests and was rejected
C30_Witness ==
    /\ resp.op = "canActivate"
    /\ resp.status = 429
    /\ storage[resp.key].count = MaxRequests
    /\ storage[resp.key].resetTime = now

====
